---- MODULE Spec2Model ----
(***************************************************************************)
(* Model of the dstack client package: the module-level configuration      *)
(* factory and configure(), create_frame(), push_frame() (dstack/__init__), *)
(* the StackFrame lifecycle created -> committed* -> pushed, and the test   *)
(* protocol of tests/test_stack.py that can be broken and fixed.            *)
(*                                                                         *)
(* Strings that the program takes apart (stack paths, user names) are       *)
(* sequences of one-character strings, so that prefixing and stripping a    *)
(* leading slash are computed and not assumed.                              *)
(***************************************************************************)
EXTENDS Integers, Sequences, FiniteSets, TLC

\* ------------------------------------------------------------------ bounds
MaxCommits == 2
MaxSends == 3

\* ------------------------------------------------------------- value sets
NULL == "None"

\* stack paths given to create_frame / push_frame
Stacks == { <<"p">>, <<"/", "o">>, <<"/", "/", "p">> }

\* profile names asked for
ProfileNames == { "default", "missing" }

\* objects handed to commit: two plots and an object no handler accepts
Objs == { "mpl_fig", "bokeh_fig", "str" }
Descriptions == { NULL, "My first plot" }
Params == { NULL, "phase" }

\* the (obj, description, params) triples commit is called with
CommitArgs ==
    { <<"mpl_fig", NULL, NULL>>, <<"mpl_fig", "My first plot", NULL>>,
      <<"bokeh_fig", NULL, "phase">>, <<"bokeh_fig", "My first plot", "phase">>,
      <<"str", "My first plot", "phase">> }

\* exceptions the test protocol is broken with
Exceptions == { "RuntimeError", "ServerException" }

Last(seq) == seq[Len(seq)]

\* ------------------------------------------------------------ dstack.config
\* Config objects: the YAML file configuration, two in-memory ones, and the
\* one a user-supplied factory produces.
Configs == { "yaml", "inplace", "empty", "made" }

Profile(name, user, token, server) ==
    [name |-> name, user |-> user, token |-> token, server |-> server]

\* the profiles each configuration holds
Profiles(config) ==
    CASE config = "yaml" ->
            [n \in {"default"} |-> Profile(n, <<"y">>, "yaml_token", "https://api.dstack.ai")]
      [] config = "inplace" ->
            [n \in {"default"} |-> Profile(n, <<"u">>, "my_token", "https://api.dstack.ai")]
      [] config = "made" ->
            [n \in {"default"} |-> Profile(n, <<"v">>, "made_token", "https://api.dstack.ai")]
      [] OTHER -> [n \in {} |-> NULL]

\* Config.get_profile: the profile, or ConfigurationException
get_profile(config, name) ==
    IF name \in DOMAIN Profiles(config)
    THEN [raised |-> NULL, profile |-> Profiles(config)[name]]
    ELSE [raised |-> "ConfigurationException", profile |-> NULL]

\* configuration factories: the default YAML factory, the SimpleConfigFactory
\* configure() wraps a Config in, and a user-written ConfigFactory
YamlConfigFactory == [kind |-> "YamlConfigFactory", config |-> "yaml"]
SimpleConfigFactory(config) == [kind |-> "SimpleConfigFactory", config |-> config]
UserConfigFactory == [kind |-> "UserConfigFactory", config |-> "made"]

\* ConfigFactory.get_config
get_config(factory) == factory.config

\* what configure() may be called with: Config objects, a ConfigFactory
\* object, and objects that are neither
ConfigureArgs == { "empty", "factory", "a string" }
isinstance_Config(x) == x \in Configs
isinstance_ConfigFactory(x) == x = "factory"

\* ----------------------------------------------------------- dstack.protocol
\* the two protocol objects a frame can hold: the JsonProtocol create_frame
\* builds when none is given, and the TestProtocol of the tests
Protocols == { "JsonProtocol", "TestProtocol" }

\* JsonProtocol(server): the protocol object
JsonProtocol(server) == "JsonProtocol"

ResponseUrl == "https://api.dstack.ai/stacks/test/test"

\* StackFrameTest.handler: the response of a send that went through
handler(payload) == [status |-> 0, url |-> ResponseUrl]

TestProtocol_send_RuntimeError(exc, payload) ==
    IF exc # NULL
    THEN [raised |-> "RuntimeError", response |-> NULL]
    ELSE [raised |-> NULL, response |-> handler(payload)]

\* TestProtocol.send: raises the exception it was broken with, else hands the
\* payload to the handler. What it returns: [raised, response].
TestProtocol_send(exc, payload) ==
    IF exc # NULL
    THEN [raised |-> exc, response |-> NULL]
    ELSE [raised |-> NULL, response |-> handler(payload)]

\* JsonProtocol.send: one POST; the server answers, or ServerException
JsonProtocol_send(ok, payload) ==
    IF ok
    THEN [raised |-> NULL, response |-> handler(payload)]
    ELSE [raised |-> "ServerException", response |-> NULL]

\* Protocol.send of the protocol object a frame holds; ok is the outcome of
\* the HTTP request when the protocol is the JsonProtocol
send(protocol, exc, ok, payload) ==
    IF protocol = "TestProtocol"
    THEN TestProtocol_send(exc, payload)
    ELSE JsonProtocol_send(ok, payload)

\* -------------------------------------------------------------- dstack.stack
\* the handler chain of AutoHandler, in the order it is asked
HandlerChain == << "MatplotlibHandler", "BokehHandler" >>

is_capable(h, obj) ==
    \/ h = "MatplotlibHandler" /\ obj = "mpl_fig"
    \/ h = "BokehHandler" /\ obj = "bokeh_fig"

\* Handler.as_frame_data: (type tag, encoded data)
as_frame_data(h, obj) ==
    IF h = "MatplotlibHandler"
    THEN [type |-> "image/svg", data |-> "svg of mpl_fig"]
    ELSE [type |-> "bokeh", data |-> "json of bokeh_fig"]

AutoHandler_any(obj) ==
    [raised |-> NULL, frame_data |-> as_frame_data(Last(HandlerChain), obj)]

\* AutoHandler: the first handler of the chain that accepts the object
RECURSIVE FirstCapable(_, _)
FirstCapable(i, obj) ==
    IF i > Len(HandlerChain) THEN 0
    ELSE IF is_capable(HandlerChain[i], obj) THEN i
    ELSE FirstCapable(i + 1, obj)

AutoHandler(obj) ==
    LET i == FirstCapable(1, obj) IN
    IF i = 0
    THEN [raised |-> "UnsupportedObjectTypeError", frame_data |-> NULL]
    ELSE [raised |-> NULL, frame_data |-> as_frame_data(HandlerChain[i], obj)]

\* NoEncryption.encrypt: the bytes unchanged
NoEncryption(bytes) == bytes

\* the attachment commit appends
Attachment(frame_data, description, params) ==
    [type |-> frame_data.type, data |-> NoEncryption(frame_data.data),
     description |-> description, params |-> params]

\* an attachment on the wire: only the keys that were set
AttachmentKeys == { "type", "data", "description", "params" }
Serialize_all_keys(att) == [k \in AttachmentKeys |-> att[k]]
Serialize(att) ==
    [k \in { x \in AttachmentKeys : att[x] # NULL } |-> att[k]]

SerializeAll(atts) == [i \in 1..Len(atts) |-> Serialize(atts[i])]

\* the stack path of the envelope: <user>/<path>, or the path without its
\* leading slash when it is absolute
stack_path(user, stack) ==
    IF Len(stack) > 0 /\ Head(stack) = "/"
    THEN Tail(stack)
    ELSE user \o <<"/">> \o stack

\* StackFrame(...): the frame as constructed
StackFrame(stack, user, token, auto_push, protocol, id) ==
    [stack |-> stack, user |-> user, token |-> token, handler |-> "AutoHandler",
     auto_push |-> auto_push, protocol |-> protocol,
     encryption |-> "NoEncryption", id |-> id, data |-> << >>]

\* the payload of the access check
AccessPayload(frame) ==
    [stack |-> stack_path(frame.user, frame.stack), token |-> frame.token]

\* the envelope push sends
Envelope(frame) ==
    [stack |-> stack_path(frame.user, frame.stack), token |-> frame.token,
     id |-> frame.id, attachments |-> SerializeAll(frame.data)]

\* -------------------------------------------------------------------- state
VARIABLES
    config_factory, \* dstack.__config_factory
    exception,      \* TestProtocol.exception
    frames,         \* the StackFrame objects constructed so far, by id
    sent,           \* every Protocol.send call so far: endpoint, payload, frame, outcome
    commits,        \* per frame, every commit call so far: arguments and outcome
    calls,          \* per frame, the call that constructed it: its arguments, the
                    \* configuration factory at the time, whether it returned the frame
    configured,     \* the most recent Config or ConfigFactory given to configure()
    result          \* the last call into the package: name, arguments, outcome

vars == << config_factory, exception, frames, sent, commits, calls, configured, result >>

\* the part of the state the frame operations read and write
State == [frames |-> frames, sent |-> sent, commits |-> commits]

Logged(st, endpoint, payload, f, r) ==
    [st EXCEPT !.sent = Append(@, [endpoint |-> endpoint, payload |-> payload,
                                   by |-> f, raised |-> r.raised])]

\* StackFrame.send_access: one request to the access endpoint
send_access(st, f, ok) ==
    LET frame == st.frames[f]
        r == send(frame.protocol, exception, ok, AccessPayload(frame))
    IN [raised |-> r.raised, st |-> Logged(st, "access", AccessPayload(frame), f, r)]

\* StackFrame.push: one request with the envelope; the reference of the response
push(st, f, ok) ==
    LET frame == st.frames[f]
        r == send(frame.protocol, exception, ok, Envelope(frame))
    IN [raised |-> r.raised,
        url |-> IF r.raised = NULL THEN r.response.url ELSE NULL,
        st |-> Logged(st, "push", Envelope(frame), f, r)]

\* the record of a commit call: its arguments, its outcome, the number of
\* Protocol.send calls it made and whether it appended an attachment
Called(before, after, f, call, raised) ==
    [after EXCEPT !.commits[f] =
        Append(@, [call |-> call, raised |-> raised,
                   sends |-> Len(after.sent) - Len(before.sent),
                   appended |-> Len(after.frames[f].data) > Len(before.frames[f].data)])]

\* StackFrame.commit: dispatch, encrypt, append, and push when auto_push
commit(st, f, obj, description, params, ok) ==
    LET d == AutoHandler(obj)
        call == [obj |-> obj, description |-> description, params |-> params]
    IN IF d.raised # NULL
       THEN [raised |-> d.raised, st |-> Called(st, st, f, call, d.raised)]
       ELSE LET att == Attachment(d.frame_data, description, params)
                st1 == [st EXCEPT !.frames[f].data = Append(@, att)]
                p == IF st1.frames[f].auto_push
                     THEN push(st1, f, ok)
                     ELSE [raised |-> NULL, url |-> NULL, st |-> st1]
            IN [raised |-> p.raised, st |-> Called(st, p.st, f, call, p.raised)]

\* ----------------------------------------------------- dstack/__init__.py
\* create_frame, "if config is None": the configuration the profile is read from
resolve_config_global(config) == get_config(config_factory)
resolve_config(config) ==
    IF config = NULL THEN get_config(config_factory) ELSE config

\* create_frame, "profile = config.get_profile(profile)"
resolve_profile_default(config, name) ==
    IF name \in DOMAIN Profiles(config)
    THEN get_profile(config, name)
    ELSE get_profile(config, "default")
resolve_profile(config, name) == get_profile(config, name)

\* create_frame, "if protocol is None"
resolve_protocol(protocol, profile) ==
    IF protocol = NULL THEN JsonProtocol(profile.server) ELSE protocol

\* create_frame, "frame = StackFrame(stack=stack, user=profile.user, ...)"
NameChars(name) ==
    IF name = "default" THEN <<"d", "e", "f", "a", "u", "l", "t">> ELSE <<"m">>
construct_always_push(stack, profile, auto_push, protocol, id) ==
    StackFrame(stack, profile.user, profile.token, TRUE, protocol, id)
construct_never_push(stack, profile, auto_push, protocol, id) ==
    StackFrame(stack, profile.user, profile.token, FALSE, protocol, id)
construct_name_as_user(stack, profile, auto_push, protocol, id) ==
    StackFrame(stack, NameChars(profile.name), profile.token, auto_push, protocol, id)
construct(stack, profile, auto_push, protocol, id) ==
    StackFrame(stack, profile.user, profile.token, auto_push, protocol, id)

\* create_frame, "if check_access: frame.send_access()" and "return frame":
\* an exception of send_access leaves create_frame, no frame is returned
checked_swallowed(a, f) == [raised |-> NULL, frame |-> f, st |-> a.st]
checked(a, f) ==
    [raised |-> a.raised, frame |-> IF a.raised = NULL THEN f ELSE 0, st |-> a.st]

\* create_frame: resolve the configuration and the profile, build the
\* protocol and the frame, check access. frame is the frame returned (0: none).
create_frame(st, stack, profile, auto_push, protocol, config, check_access, ok) ==
    LET cfg == resolve_config(config)
        prof == resolve_profile(cfg, profile)
    IN IF prof.raised # NULL
       THEN [raised |-> prof.raised, frame |-> 0, st |-> st]
       ELSE LET proto == resolve_protocol(protocol, prof.profile)
                f == Len(st.frames) + 1
                st1 == [st EXCEPT
                          !.frames = Append(@, construct(stack, prof.profile, auto_push,
                                                         proto, f)),
                          !.commits = Append(@, << >>)]
            IN IF check_access
               THEN checked(send_access(st1, f, ok), f)
               ELSE [raised |-> NULL, frame |-> f, st |-> st1]

\* push_frame: create the frame without the access check, commit, push
push_frame_checking(st, stack, obj, description, params, profile, config, ok) ==
    LET c == create_frame(st, stack, profile, FALSE, NULL, config, TRUE, ok)
    IN IF c.raised # NULL
       THEN [raised |-> c.raised, frame |-> 0, url |-> NULL, st |-> c.st]
       ELSE LET m == commit(c.st, c.frame, obj, description, params, ok)
            IN IF m.raised # NULL
               THEN [raised |-> m.raised, frame |-> c.frame, url |-> NULL, st |-> m.st]
               ELSE LET p == push(m.st, c.frame, ok)
                    IN [raised |-> p.raised, frame |-> c.frame, url |-> p.url, st |-> p.st]
push_frame(st, stack, obj, description, params, profile, config, ok) ==
    LET c == create_frame(st, stack, profile, FALSE, NULL, config, FALSE, ok)
    IN IF c.raised # NULL
       THEN [raised |-> c.raised, frame |-> 0, url |-> NULL, st |-> c.st]
       ELSE LET m == commit(c.st, c.frame, obj, description, params, ok)
            IN IF m.raised # NULL
               THEN [raised |-> m.raised, frame |-> c.frame, url |-> NULL, st |-> m.st]
               ELSE LET p == push(m.st, c.frame, ok)
                    IN [raised |-> p.raised, frame |-> c.frame, url |-> p.url, st |-> p.st]

\* configure: the new value of __config_factory, or TypeError
configure(config) ==
    IF isinstance_Config(config)
    THEN [raised |-> NULL, factory |-> SimpleConfigFactory(config)]
    ELSE IF isinstance_ConfigFactory(config)
    THEN [raised |-> NULL, factory |-> UserConfigFactory]
    ELSE [raised |-> "TypeError", factory |-> config_factory]

\* ------------------------------------------------------------------ actions
\* what an operation did: its outcome, the number of Protocol.send calls it
\* made and the number of StackFrame objects it constructed
Outcome(op, args, raised, frame, url, before, after) ==
    [op |-> op, args |-> args, raised |-> raised, frame |-> frame, url |-> url,
     sends |-> Len(after.sent) - Len(before.sent),
     constructed |-> Len(after.frames) - Len(before.frames)]

Apply(st) ==
    /\ frames' = st.frames
    /\ sent' = st.sent
    /\ commits' = st.commits

\* The caller works with one frame at a time: a call of create_frame or
\* push_frame starts afresh, the frame of the call before is let go.
Fresh == [frames |-> << >>, sent |-> << >>, commits |-> << >>]

Init ==
    /\ config_factory = YamlConfigFactory
    /\ exception = NULL
    /\ frames = << >>
    /\ sent = << >>
    /\ commits = << >>
    /\ calls = << >>
    /\ configured = NULL
    /\ result = [op |-> "init", args |-> << >>, raised |-> NULL, frame |-> 0,
                 url |-> NULL, sends |-> 0, constructed |-> 0]

\* the outcomes of an HTTP request: only the JsonProtocol makes one
HttpOutcomes(protocol) == IF protocol = "TestProtocol" THEN {TRUE} ELSE BOOLEAN

Configure(ConfigureIn) ==
    \E config \in ConfigureIn :
        LET r == configure(config) IN
        /\ config_factory' = r.factory
        /\ configured' = IF config \in Configs \/ config = "factory"
                         THEN config ELSE configured
        /\ result' = Outcome("configure", [config |-> config], r.raised, 0, NULL, State, State)
        /\ UNCHANGED << exception, frames, sent, commits, calls >>

CreateFrame(StacksIn, ProfilesIn, AutoPushIn, ProtocolsIn, ConfigsIn, CheckAccessIn) ==
    \E stack \in StacksIn, profile \in ProfilesIn, auto_push \in AutoPushIn,
       protocol \in ProtocolsIn, config \in ConfigsIn,
       check_access \in CheckAccessIn :
      \E ok \in HttpOutcomes(protocol) :
        LET r == create_frame(Fresh, stack, profile, auto_push, protocol, config,
                              check_access, ok)
            args == [stack |-> stack, profile |-> profile, auto_push |-> auto_push,
                     protocol |-> protocol, config |-> config,
                     check_access |-> check_access]
        IN
        /\ Apply(r.st)
        /\ calls' = IF Len(r.st.frames) > 0
                    THEN << [op |-> "create_frame", args |-> args,
                             factory |-> config_factory,
                             returned |-> r.frame # 0] >>
                    ELSE << >>
        /\ result' = Outcome("create_frame", args, r.raised, r.frame, NULL, Fresh, r.st)
        /\ UNCHANGED << config_factory, exception, configured >>

PushFrame(StacksIn, CommitIn, ProfilesIn, ConfigsIn) ==
    \E stack \in StacksIn, c \in CommitIn, profile \in ProfilesIn,
       config \in ConfigsIn, ok \in BOOLEAN :
        LET r == push_frame(Fresh, stack, c[1], c[2], c[3], profile, config, ok)
            args == [stack |-> stack, obj |-> c[1], description |-> c[2],
                     params |-> c[3], profile |-> profile, config |-> config]
        IN
        /\ Apply(r.st)
        /\ calls' = IF Len(r.st.frames) > 0
                    THEN << [op |-> "push_frame", args |-> args,
                             factory |-> config_factory, returned |-> FALSE] >>
                    ELSE << >>
        /\ result' = Outcome("push_frame", args, r.raised, r.frame, r.url, Fresh, r.st)
        /\ UNCHANGED << config_factory, exception, configured >>

\* the frames the caller holds: those create_frame returned
Held == { f \in 1..Len(frames) : calls[f].returned }

Commit(CommitIn) ==
    \E f \in Held : \E c \in CommitIn, ok \in HttpOutcomes(frames[f].protocol) :
        LET r == commit(State, f, c[1], c[2], c[3], ok)
            args == [frame |-> f, obj |-> c[1], description |-> c[2], params |-> c[3]]
        IN
        /\ Len(commits[f]) < MaxCommits
        /\ Len(sent) < MaxSends
        /\ Apply(r.st)
        /\ result' = Outcome("commit", args, r.raised, f, NULL, State, r.st)
        /\ UNCHANGED << config_factory, exception, calls, configured >>

Push ==
    \E f \in Held : \E ok \in HttpOutcomes(frames[f].protocol) :
        LET r == push(State, f, ok) IN
        /\ Len(sent) < MaxSends
        /\ Apply(r.st)
        /\ result' = Outcome("push", [frame |-> f], r.raised, f, r.url, State, r.st)
        /\ UNCHANGED << config_factory, exception, calls, configured >>

\* TestProtocol.broke
Broke ==
    \E e \in Exceptions :
        /\ exception' = e
        /\ UNCHANGED << config_factory, frames, sent, commits, calls, configured, result >>

\* TestProtocol.fix
Fix ==
    /\ exception' = NULL
    /\ UNCHANGED << config_factory, frames, sent, commits, calls, configured, result >>

\* ----------------------------------------------------------- specifications
\* The frame lifecycle: frames of the profile of the tests with the access
\* check (the default), every commit argument, the test protocol broken and fixed at any time (push_frame
\* goes through the JsonProtocol, whose requests fail or succeed).
PushFrameArgs ==
    { <<"mpl_fig", "My first plot", NULL>>, <<"bokeh_fig", NULL, "phase">>,
      <<"str", "My first plot", "phase">> }

Next ==
    \/ CreateFrame({<<"p">>}, {"default"}, BOOLEAN, {"TestProtocol"},
                   {"inplace"}, {TRUE})
    \/ PushFrame({<<"p">>}, PushFrameArgs, {"default"}, {"inplace"})
    \/ Commit(CommitArgs)
    \/ Push
    \/ Broke
    \/ Fix

Spec == Init /\ [][Next]_vars

\* Configuration and stack paths: every stack path, profile name and
\* configuration source, with and without the access check, configure()
\* called at any time; the protocol is never broken.
PlainCommit == { <<"mpl_fig", NULL, NULL>> }

NextConfig ==
    \/ Configure(ConfigureArgs)
    \/ CreateFrame(Stacks, ProfileNames, {FALSE}, {"TestProtocol"},
                   {NULL, "inplace"}, BOOLEAN)
    \/ PushFrame(Stacks, PlainCommit, ProfileNames, {NULL, "inplace"})
    \/ Commit(PlainCommit)
    \/ Push

SpecConfig == Init /\ [][NextConfig]_vars

\* ------------------------------------------------------------------ helpers
\* the push requests of frame f, in the order they were made
PushEntries(f) == SelectSeq(sent, LAMBDA e : e.endpoint = "push" /\ e.by = f)
OkPushEntries(f) == SelectSeq(PushEntries(f), LAMBDA e : e.raised = NULL)

\* the commit calls on frame f that returned, and those that appended
OkCommits(f) == SelectSeq(commits[f], LAMBDA c : c.raised = NULL)
Appended(f) == SelectSeq(commits[f], LAMBDA c : c.appended)

Accepted(obj) == \E i \in 1..Len(HandlerChain) : is_capable(HandlerChain[i], obj)
AcceptedCommits(f) == SelectSeq(commits[f], LAMBDA c : Accepted(c.call.obj))

RECURSIVE SumSends(_)
SumSends(cs) == IF cs = << >> THEN 0 ELSE Head(cs).sends + SumSends(Tail(cs))

\* the attachment a commit call is to produce on the wire: type and data of
\* the object, and each of description and params only when it was passed
Produced(call) ==
    LET fd == AutoHandler(call.obj).frame_data
        keys == {"type", "data"}
                \cup (IF call.description # NULL THEN {"description"} ELSE {})
                \cup (IF call.params # NULL THEN {"params"} ELSE {})
    IN [k \in keys |-> CASE k = "type" -> fd.type
                         [] k = "data" -> fd.data
                         [] k = "description" -> call.description
                         [] k = "params" -> call.params]

CreatedWith(f, auto_push) ==
    calls[f].op = "create_frame" /\ calls[f].args.auto_push = auto_push

\* ------------------------------------------------------------------- claims
\* C1: on a frame created with auto_push=False no commit makes a request, and
\* a push after N commit calls that returned makes exactly one request, the
\* push, whose attachments are the N attachments of those calls in call order
\* (none when N = 0).
C1_PushSendsCommitsInOrder ==
    \A f \in 1..Len(frames) :
        CreatedWith(f, FALSE) =>
            /\ \A i \in 1..Len(commits[f]) : commits[f][i].sends = 0
            /\ result.op = "push" =>
                /\ result.sends = 1
                /\ Last(sent).endpoint = "push"
                /\ Last(sent).by = f
                /\ Len(Last(sent).payload.attachments) = Len(OkCommits(f))
                /\ \A i \in 1..Len(OkCommits(f)) :
                       Last(sent).payload.attachments[i] = Produced(OkCommits(f)[i].call)

C1_Witness ==
    /\ Len(frames) = 1
    /\ CreatedWith(1, FALSE)
    /\ result.op = "push"
    /\ result.raised = NULL
    /\ Len(OkCommits(1)) = 2
    /\ OkCommits(1)[1].call # OkCommits(1)[2].call
    /\ Len(Last(sent).payload.attachments) = 2

\* C3: in every push envelope an attachment has the key description exactly
\* when a description was passed to the commit that made it, the key params
\* exactly when params were passed, and no key holds None.
C3_OptionalKeys ==
    \A n \in 1..Len(sent) :
        sent[n].endpoint = "push" =>
            LET atts == sent[n].payload.attachments
                made == Appended(sent[n].by)
            IN /\ Len(atts) <= Len(made)
               /\ \A i \in 1..Len(atts) :
                    /\ ("description" \in DOMAIN atts[i]) <=> (made[i].call.description # NULL)
                    /\ ("params" \in DOMAIN atts[i]) <=> (made[i].call.params # NULL)
                    /\ \A k \in DOMAIN atts[i] : atts[i][k] # NULL

C3_Witness ==
    \E n \in 1..Len(sent) :
        /\ sent[n].endpoint = "push"
        /\ Len(sent[n].payload.attachments) = 2
        /\ DOMAIN sent[n].payload.attachments[1] = {"type", "data", "description"}
        /\ DOMAIN sent[n].payload.attachments[2] = {"type", "data", "params"}

\* C6: a commit of an object no handler accepts raises
\* UnsupportedObjectTypeError, makes no request (also on an auto_push frame)
\* and appends nothing; every envelope holds attachments of accepted objects only.
C6_UnsupportedObject ==
    \A f \in 1..Len(frames) :
        /\ \A i \in 1..Len(commits[f]) :
               ~Accepted(commits[f][i].call.obj) =>
                   /\ commits[f][i].raised = "UnsupportedObjectTypeError"
                   /\ commits[f][i].sends = 0
                   /\ ~commits[f][i].appended
        /\ \A n \in 1..Len(PushEntries(f)) :
               LET atts == PushEntries(f)[n].payload.attachments IN
               /\ Len(atts) <= Len(AcceptedCommits(f))
               /\ \A i \in 1..Len(atts) : atts[i] = Produced(AcceptedCommits(f)[i].call)

C6_Witness ==
    /\ Len(frames) = 1
    /\ CreatedWith(1, TRUE)
    /\ Len(commits[1]) = 2
    /\ commits[1][1].call.obj = "str"
    /\ commits[1][2].raised = NULL
    /\ Len(PushEntries(1)) = 1

\* C7: on a frame created with auto_push=True every commit that returns has
\* made exactly one request, a push sent after its attachment was appended;
\* with no explicit push, k such commits have sent exactly k pushes, the k-th
\* ending with the k-th attachment. With auto_push=False commit makes none.
C7_AutoPush ==
    \A f \in 1..Len(frames) :
        /\ CreatedWith(f, FALSE) => \A i \in 1..Len(commits[f]) : commits[f][i].sends = 0
        /\ CreatedWith(f, TRUE) =>
            /\ \A i \in 1..Len(commits[f]) :
                   commits[f][i].raised = NULL =>
                       commits[f][i].sends = 1 /\ commits[f][i].appended
            /\ (result.op = "commit" /\ result.raised = NULL) =>
                /\ Last(sent).endpoint = "push"
                /\ Last(sent).raised = NULL
                /\ Len(Last(sent).payload.attachments) = Len(frames[f].data)
                /\ Last(Last(sent).payload.attachments) = Produced(Last(commits[f]).call)
            /\ Len(PushEntries(f)) = SumSends(commits[f]) =>
                /\ Len(OkPushEntries(f)) = Len(OkCommits(f))
                /\ \A k \in 1..Len(OkCommits(f)) :
                       Last(OkPushEntries(f)[k].payload.attachments)
                           = Produced(OkCommits(f)[k].call)

C7_Witness ==
    /\ Len(frames) = 1
    /\ CreatedWith(1, TRUE)
    /\ Len(OkCommits(1)) = 2
    /\ Len(PushEntries(1)) = 2
    /\ result.op = "commit"
    /\ Len(Last(sent).payload.attachments) = 2

\* the configuration a create_frame / push_frame call reads when it is given
\* none: that of the configuration factory at the time of the call
ConfigOfCall(c) == IF c.args.config = NULL THEN get_config(c.factory) ELSE c.args.config

\* C2: the stack of every push envelope is <user>/<path> for a path that does
\* not start with a slash, and the path without its first character (no user
\* in front, the rest unchanged) for a path that starts with a slash.
C2_StackField ==
    \A n \in 1..Len(sent) :
        sent[n].endpoint = "push" =>
            LET c == calls[sent[n].by]
                u == Profiles(ConfigOfCall(c))[c.args.profile].user
                path == c.args.stack
            IN IF path # << >> /\ path[1] = "/"
               THEN sent[n].payload.stack = SubSeq(path, 2, Len(path))
               ELSE sent[n].payload.stack = u \o <<"/">> \o path

C2_Witness ==
    \E n \in 1..Len(sent) :
        /\ sent[n].endpoint = "push"
        /\ calls[sent[n].by].args.stack = <<"p">>
        /\ calls[sent[n].by].args.config = NULL
        /\ sent[n].payload.stack = <<"v", "/", "p">>

\* C4: when the access check of create_frame (check_access=True) raises,
\* create_frame raises that exception and returns no frame, nothing is
\* committed or pushed on the frame; create_frame makes no protocol call but
\* the access check, once.
C4_AccessCheckFailsFast ==
    /\ \A f \in 1..Len(frames) :
           ( /\ calls[f].op = "create_frame"
             /\ calls[f].args.check_access
             /\ sent # << >>
             /\ sent[1].endpoint = "access"
             /\ sent[1].raised # NULL ) =>
               /\ ~calls[f].returned
               /\ commits[f] = << >>
               /\ Len(sent) = 1
               /\ result.op = "create_frame"
               /\ result.raised = sent[1].raised
               /\ result.frame = 0
    /\ result.op = "create_frame" =>
           /\ result.sends = IF result.args.check_access /\ result.constructed = 1
                             THEN 1 ELSE 0
           /\ \A n \in 1..Len(sent) : sent[n].endpoint = "access"

C4_Witness ==
    /\ Len(frames) = 1
    /\ calls[1].op = "create_frame"
    /\ calls[1].args.check_access
    /\ sent[1].raised = "ServerException"
    /\ result.raised = "ServerException"
    /\ exception = NULL

\* C5: a push whose Protocol.send raises raises that exception and leaves the
\* attachments of the frame as they were; the next push, with no commit in
\* between and send working again, sends the envelope the failed push sent
\* and returns the reference.
C5_Step ==
    (result'.op = "push" /\ sent' # sent) =>
        LET f == result'.frame IN
        /\ (frames[f].protocol = "TestProtocol" /\ exception # NULL) =>
               result'.raised = exception
        /\ result'.raised # NULL => frames' = frames
        /\ (result.op = "push" /\ result.raised # NULL /\ result'.raised = NULL) =>
               /\ Last(sent').payload = Last(sent).payload
               /\ result'.url = ResponseUrl

C8_MissingProfile ==
    result.op = "create_frame" =>
        LET cfg == IF result.args.config = NULL
                   THEN get_config(config_factory) ELSE result.args.config
        IN result.args.profile \notin DOMAIN Profiles(cfg) =>
               /\ result.raised = "ConfigurationException"
               /\ result.frame = 0
               /\ result.constructed = 0
               /\ result.sends = 0
               /\ frames = << >>
               /\ sent = << >>

C8_Witness ==
    /\ result.op = "create_frame"
    /\ result.args.profile = "default"
    /\ result.args.config = NULL
    /\ result.args.check_access
    /\ configured = "empty"
    /\ result.raised = "ConfigurationException"

\* the configuration of the most recent Config or ConfigFactory given to
\* configure(), that of the YAML factory when there was none
Chosen ==
    IF configured = NULL THEN "yaml"
    ELSE IF configured = "factory" THEN "made"
    ELSE configured

\* C9: create_frame reads the profile from its config argument when given and
\* else from the configuration of the most recent accepted configure() (the
\* YAML one when there was none); configure() of an object that is neither a
\* Config nor a ConfigFactory raises TypeError and changes nothing.
C9_ConfigurationResolution ==
    /\ get_config(config_factory) = Chosen
    /\ result.op = "configure" =>
           result.raised = IF result.args.config \in Configs \cup {"factory"}
                           THEN NULL ELSE "TypeError"
    /\ result.op = "create_frame" =>
           LET cfg == IF result.args.config # NULL THEN result.args.config ELSE Chosen
           IN IF result.args.profile \in DOMAIN Profiles(cfg)
              THEN /\ result.constructed = 1
                   /\ frames[1].user = Profiles(cfg)[result.args.profile].user
                   /\ frames[1].token = Profiles(cfg)[result.args.profile].token
              ELSE result.raised = "ConfigurationException"

C9_Witness ==
    /\ result.op = "create_frame"
    /\ result.args.config = NULL
    /\ configured = "factory"
    /\ Len(frames) = 1
    /\ frames[1].user = <<"v">>

\* C10: a push_frame call that returns has made exactly one request, the push
\* (never the access check), has committed the object once, has sent one
\* attachment and returns the reference of the response to that push.
C10_PushFrame ==
    result.op = "push_frame" =>
        /\ \A n \in 1..Len(sent) : sent[n].endpoint # "access"
        /\ result.raised = NULL =>
            /\ result.sends = 1
            /\ Len(sent) = 1
            /\ sent[1].endpoint = "push"
            /\ sent[1].raised = NULL
            /\ Len(commits[1]) = 1
            /\ commits[1][1].call = [obj |-> result.args.obj,
                                     description |-> result.args.description,
                                     params |-> result.args.params]
            /\ Len(sent[1].payload.attachments) = 1
            /\ sent[1].payload.attachments[1] = Produced(commits[1][1].call)
            /\ result.url = handler(sent[1].payload).url

C10_Witness ==
    /\ result.op = "push_frame"
    /\ result.raised = NULL
    /\ result.url = ResponseUrl
    /\ Len(sent) = 1
    /\ DOMAIN sent[1].payload.attachments[1] = {"type", "data", "params"}

====
